---- MODULE Spec2Model ----
(***************************************************************************)
(* Model of the tic-tac-toe game engine of TicTacToeApp.tsx: the board,    *)
(* the turn, the score, the derived status, and the score record kept in   *)
(* localStorage under the key 'ttt_score'.                                 *)
(***************************************************************************)
EXTENDS Integers, Sequences, FiniteSets, TLC

VARIABLES
  board,       \* useState: the nine cells
  nextPlayer,  \* useState: whose turn is next
  score,       \* useState: wins per player
  status,      \* useMemo: computeStatus(board, nextPlayer) of the last render
  stored,      \* localStorage['ttt_score']
  writable,    \* environment: whether localStorage.setItem succeeds now
  pc,          \* where the component is in its mount sequence
  queued,      \* the setScore update queued by the first effect
  boot,        \* history: the record in storage when the process started
  starter      \* history: the player the current round started with

vars ==
  <<board, nextPlayer, score, status, stored, writable, pc, queued, boot, starter>>

(* ---------------------------------------------------------------- bounds *)

\* The largest win count a player reaches in the model (guards the increment).
MaxScore == 1

\* The largest number a stored record holds at startup.
MaxStored == 1

\* How many of the lowest-numbered empty squares the user chooses among in the
\* runs with a failing storage.
StoreChoices == 2

(* ------------------------------------------------------------ data types *)

Player == {"X", "O"}

\* A cell holds a player's mark or null.
Null == "null"

Cell == Player \cup {Null}

\* What an array read outside 0..8 yields.
Undefined == "undefined"

Indices == 0..8

EmptyBoard == [i \in Indices |-> Null]

AllBoards == [Indices -> Cell]

WIN_LINES ==
  << <<0, 1, 2>>,
     <<3, 4, 5>>,
     <<6, 7, 8>>,
     <<0, 3, 6>>,
     <<1, 4, 7>>,
     <<2, 5, 8>>,
     <<0, 4, 8>>,
     <<2, 4, 6>> >>

NoLine == <<>>

\* The three variants of GameStatus, as records of one shape.
InProgress(p) == [kind |-> "IN_PROGRESS", nextPlayer |-> p, winner |-> Null, line |-> NoLine]

Won(w, l) == [kind |-> "WON", nextPlayer |-> Null, winner |-> w, line |-> l]

Draw == [kind |-> "DRAW", nextPlayer |-> Null, winner |-> Null, line |-> NoLine]

\* The status before computeStatus has been applied (pure-function runs only).
NoStatus == [kind |-> "NONE", nextPlayer |-> Null, winner |-> Null, line |-> NoLine]

(* -------------------------------------------------------- pure functions *)

\* board[i] as JavaScript reads it: undefined outside the array.
At(b, i) == IF i \in Indices THEN b[i] ELSE Undefined

\* LineComplete without the test that the first cell is marked.
LineComplete_IgnoresEmpty(b, l) ==
  /\ b[l[1]] = b[l[2]]
  /\ b[l[1]] = b[l[3]]

\* The condition of the loop body: board[a] && board[a] === board[b] && board[a] === board[c].
LineComplete(b, l) ==
  /\ b[l[1]] # Null
  /\ b[l[1]] = b[l[2]]
  /\ b[l[1]] = b[l[3]]

\* FirstWin scanning for the last complete line instead of the first.
FirstWin_TakesLast(b, k) ==
  LET done == {j \in k..Len(WIN_LINES) : LineComplete(b, WIN_LINES[j])} IN
  IF done = {} THEN 0 ELSE CHOOSE j \in done : \A i \in done : i <= j

\* The for loop over WIN_LINES from position k: the first complete line, or 0.
RECURSIVE FirstWin(_, _)
FirstWin(b, k) ==
  IF k > Len(WIN_LINES) THEN 0
  ELSE IF LineComplete(b, WIN_LINES[k]) THEN k
  ELSE FirstWin(b, k + 1)

\* computeStatus without the test for a full board.
computeStatus_NoDraw(b, np) ==
  LET k == FirstWin(b, 1) IN
  IF k # 0 THEN Won(b[WIN_LINES[k][1]], WIN_LINES[k])
  ELSE InProgress(np)

computeStatus(b, np) ==
  LET k == FirstWin(b, 1) IN
  IF k # 0 THEN Won(b[WIN_LINES[k][1]], WIN_LINES[k])
  ELSE IF \A i \in Indices : b[i] # Null THEN Draw
  ELSE InProgress(np)

\* otherPlayer with the branches exchanged.
otherPlayer_Same(p) == IF p = "X" THEN "X" ELSE "O"

otherPlayer(p) == IF p = "X" THEN "O" ELSE "X"

(* ------------------------------------------------- the persisted record *)

\* A property of a parsed JSON value: absent, a number, or anything else.
Missing == [type |-> "missing", v |-> 0]

NonNumber == [type |-> "other", v |-> 0]

Num(n) == [type |-> "number", v |-> n]

StoredNumbers == -1..MaxStored

Fields == {Missing, NonNumber} \cup {Num(n) : n \in StoredNumbers}

\* A parsed JSON value: null, an object with its X and O properties, or any
\* other value (a number, a string, a boolean, an array), which has neither.
JNull == [type |-> "null", X |-> Missing, O |-> Missing]

JScalar == [type |-> "scalar", X |-> Missing, O |-> Missing]

JObject(x, o) == [type |-> "object", X |-> x, O |-> o]

\* The content of localStorage['ttt_score']: no item, the empty text, a text
\* that is not JSON, or the JSON text of a value.
NoItem == [kind |-> "absent", value |-> JNull]

EmptyText == [kind |-> "empty", value |-> JNull]

GarbageText == [kind |-> "garbage", value |-> JNull]

JsonText(val) == [kind |-> "json", value |-> val]

AllRecords ==
  {NoItem, EmptyText, GarbageText, JsonText(JNull), JsonText(JScalar)}
    \cup {JsonText(JObject(x, o)) : x \in Fields, o \in Fields}

\* JSON.stringify(score) for a score of two integers.
JSONstringify(sc) == JsonText(JObject(Num(sc.X), Num(sc.O)))

\* JSON.parse(raw) throws a SyntaxError on a text that is not JSON.
ParseThrows(raw) == raw.kind \in {"empty", "garbage"}

JSONparse(raw) == raw.value

\* typeof parsed.X === 'number' ? parsed.X : 0
NumberOrZero(f) == IF f.type = "number" THEN f.v ELSE 0

\* The update a handler or effect queues with setScore, or none.
NoUpdate == [set |-> FALSE, X |-> 0, O |-> 0]

SetScore(x, o) == [set |-> TRUE, X |-> x, O |-> o]

ZeroScore == [X |-> 0, O |-> 0]

\* loadEffect falling back to zero for both fields when either is no number.
loadEffect_AllOrNothing(raw) ==
  IF raw.kind \in {"absent", "empty"} THEN NoUpdate
  ELSE IF ParseThrows(raw) THEN NoUpdate
  ELSE LET parsed == JSONparse(raw) IN
       IF parsed.type = "null" THEN NoUpdate
       ELSE IF parsed.X.type = "number" /\ parsed.O.type = "number"
            THEN SetScore(parsed.X.v, parsed.O.v)
            ELSE SetScore(0, 0)

\* The body of the first effect: what it queues for the record it reads.
loadEffect(raw) ==
  IF raw.kind \in {"absent", "empty"} THEN NoUpdate          \* if (raw) fails
  ELSE IF ParseThrows(raw) THEN NoUpdate                      \* caught
  ELSE LET parsed == JSONparse(raw) IN
       IF parsed.type = "null" THEN NoUpdate                  \* TypeError, caught
       ELSE SetScore(NumberOrZero(parsed.X), NumberOrZero(parsed.O))

\* saveEffect writing X only and keeping the O already in the record.
saveEffect_KeepsStoredO(sc, old) ==
  IF ~writable THEN old
  ELSE IF old.kind = "json" /\ old.value.type = "object"
       THEN JsonText(JObject(Num(sc.X), old.value.O))
       ELSE JSONstringify(sc)

\* saveEffect writing only a score that has a win in it.
saveEffect_SkipsZero(sc, old) ==
  IF writable /\ sc # [X |-> 0, O |-> 0] THEN JSONstringify(sc) ELSE old

\* The body of the second effect: setItem stores the text, or throws (caught)
\* and the record stays what it was.
saveEffect(sc, old) == IF writable THEN JSONstringify(sc) ELSE old

(* --------------------------------------------------------------- startup *)

\* The records the game runs start from.
GameRecords == {NoItem, JsonText(JObject(Num(MaxStored), Missing))}

Constructed(rec, w) ==
  /\ board = EmptyBoard
  /\ nextPlayer = "X"
  /\ score = ZeroScore
  /\ status = computeStatus(EmptyBoard, "X")
  /\ stored = rec
  /\ boot = rec
  /\ writable = w
  /\ pc = "mount_load"
  /\ queued = NoUpdate
  /\ starter = "X"

\* One session of play on a storage that accepts every write.
Init == \E rec \in GameRecords : Constructed(rec, TRUE)

\* First effect after mount: read and parse the record, queue setScore.
MountLoad ==
  /\ pc = "mount_load"
  /\ queued' = loadEffect(stored)
  /\ pc' = "mount_save"
  /\ UNCHANGED <<board, nextPlayer, score, status, stored, boot, writable, starter>>

\* Second effect after mount: write the score of the first render.
MountSave ==
  /\ pc = "mount_save"
  /\ stored' = saveEffect(score, stored)
  /\ pc' = IF queued.set THEN "rerender" ELSE "ready"
  /\ UNCHANGED <<board, nextPlayer, score, status, queued, boot, writable, starter>>

\* The render the queued setScore causes, and the second effect after it.
Rerender ==
  /\ pc = "rerender"
  /\ score' = [X |-> queued.X, O |-> queued.O]
  /\ queued' = NoUpdate
  /\ stored' = saveEffect(score', stored)
  /\ pc' = "ready"
  /\ UNCHANGED <<board, nextPlayer, status, boot, writable, starter>>

(* -------------------------------------------------------------- handlers *)

\* resetRound that always hands the opening move to X.
resetRound_AlwaysX(startingPlayer) ==
  /\ board' = EmptyBoard
  /\ nextPlayer' = "X"
  /\ status' = computeStatus(board', nextPlayer')
  /\ starter' = nextPlayer'

resetRound(startingPlayer) ==
  /\ board' = EmptyBoard
  /\ nextPlayer' = startingPlayer
  /\ status' = computeStatus(board', nextPlayer')
  /\ starter' = startingPlayer

\* The 'New round' button: resetRound(nextPlayer).
NewRound ==
  /\ pc = "ready"
  /\ resetRound(nextPlayer)
  /\ UNCHANGED <<score, stored, pc, queued, boot, writable>>

\* resetAll writing the record itself, unguarded, before it resets the round:
\* a failing write ends the handler there.
resetAll_StopsOnFailedWrite ==
  /\ pc = "ready"
  /\ score' = ZeroScore
  /\ stored' = saveEffect(score', stored)
  /\ IF writable THEN resetRound("X")
     ELSE UNCHANGED <<board, nextPlayer, status, starter>>
  /\ UNCHANGED <<pc, queued, boot, writable>>

\* The 'Reset score' button.
resetAll ==
  /\ pc = "ready"
  /\ score' = ZeroScore
  /\ resetRound("X")
  /\ stored' = saveEffect(score', stored)
  /\ UNCHANGED <<pc, queued, boot, writable>>

\* Increment with the sign of the step reversed.
Increment_Subtracts(prev, winner) == [prev EXCEPT ![winner] = prev[winner] - 1]

\* Increment counting a win twice.
Increment_Twice(prev, winner) == [prev EXCEPT ![winner] = prev[winner] + 2]

\* prev => ({ ...prev, [winner]: prev[winner] + 1 })
Increment(prev, winner) == [prev EXCEPT ![winner] = prev[winner] + 1]

\* Rejected without the test of the clicked square.
Rejected_OnlyFinished(index) == status.kind # "IN_PROGRESS"

\* The two early returns: the square is not empty (or is no square of the
\* board), or the round is finished.
Rejected(index) ==
  \/ At(board, index) # Null
  \/ status.kind # "IN_PROGRESS"

\* NextAfterMove as the comment above the if describes it: the turn passes
\* only while the round is in progress.
NextAfterMove_FreezesAtEnd(newStatus, upcomingNext, current) ==
  IF newStatus.kind = "IN_PROGRESS" THEN upcomingNext ELSE current

\* Both branches of the final if assign upcomingNext.
NextAfterMove(newStatus, upcomingNext, current) ==
  IF newStatus.kind = "IN_PROGRESS" THEN upcomingNext ELSE upcomingNext

\* PlaceMark counting a draw as a win of the player who filled the board.
PlaceMark_ScoresDraw(index, mark) ==
  LET newBoard == [board EXCEPT ![index] = mark]
      upcomingNext == otherPlayer(mark)
      newStatus == computeStatus(newBoard, upcomingNext)
  IN /\ newStatus.kind = "WON" => score[newStatus.winner] < MaxScore
     /\ board' = newBoard
     /\ nextPlayer' = NextAfterMove(newStatus, upcomingNext, nextPlayer)
     /\ status' = computeStatus(board', nextPlayer')
     /\ IF newStatus.kind # "IN_PROGRESS"
        THEN /\ score' = Increment(score, mark)
             /\ stored' = saveEffect(score', stored)
        ELSE UNCHANGED <<score, stored>>
     /\ UNCHANGED <<pc, queued, boot, writable, starter>>

\* The rest of the handler, placing mark on square index, with the render and
\* the save effect that follow.
PlaceMark(index, mark) ==
  LET newBoard == [board EXCEPT ![index] = mark]
      upcomingNext == otherPlayer(mark)
      newStatus == computeStatus(newBoard, upcomingNext)
  IN /\ newStatus.kind = "WON" => score[newStatus.winner] < MaxScore
     /\ board' = newBoard
     /\ nextPlayer' = NextAfterMove(newStatus, upcomingNext, nextPlayer)
     /\ status' = computeStatus(board', nextPlayer')
     /\ IF newStatus.kind = "WON"
        THEN /\ score' = Increment(score, newStatus.winner)
             /\ stored' = saveEffect(score', stored)
        ELSE UNCHANGED <<score, stored>>
     /\ UNCHANGED <<pc, queued, boot, writable, starter>>

\* handleSquareClick placing the mark of the player who is not to move.
handleSquareClick_WrongMark(index) ==
  /\ pc = "ready"
  /\ IF Rejected(index) THEN UNCHANGED vars
     ELSE PlaceMark(index, otherPlayer(status.nextPlayer))

\* handleSquareClick without the test that the round is in progress, placing
\* the mark of nextPlayer.
handleSquareClick_AfterEnd(index) ==
  /\ pc = "ready"
  /\ IF At(board, index) # Null THEN UNCHANGED vars
     ELSE PlaceMark(index, nextPlayer)

handleSquareClick(index) ==
  /\ pc = "ready"
  /\ IF Rejected(index) THEN UNCHANGED vars
     ELSE PlaceMark(index, status.nextPlayer)

\* The indices a click may carry: the nine squares and one to either side.
ClickIndices == -1..9

Click == \E index \in ClickIndices : handleSquareClick(index)

Next ==
  \/ MountLoad
  \/ MountSave
  \/ Rerender
  \/ Click
  \/ NewRound
  \/ resetAll

Spec == Init /\ [][Next]_vars

(* ------------------------------------------- play on a failing storage *)

\* The environment: setItem starts to throw (quota exceeded, storage
\* disabled), or works again.
StorageFails ==
  /\ writable
  /\ writable' = FALSE
  /\ UNCHANGED <<board, nextPlayer, score, status, stored, pc, queued, boot, starter>>

StorageRecovers ==
  /\ ~writable
  /\ writable' = TRUE
  /\ UNCHANGED <<board, nextPlayer, score, status, stored, pc, queued, boot, starter>>

EmptyCells(b) == {i \in Indices : b[i] = Null}

\* The empty squares with fewer than StoreChoices empty squares before them.
Offered(b) ==
  {i \in EmptyCells(b) : Cardinality({j \in EmptyCells(b) : j < i}) < StoreChoices}

\* A click on any square that is not empty, outside the board, or on one of
\* the offered empty squares.
StoreClick ==
  \E index \in (ClickIndices \ EmptyCells(board)) \cup Offered(board) :
    handleSquareClick(index)

InitStore == \E rec \in GameRecords, w \in BOOLEAN : Constructed(rec, w)

NextStore ==
  \/ MountLoad
  \/ MountSave
  \/ Rerender
  \/ StoreClick
  \/ NewRound
  \/ resetAll
  \/ StorageFails
  \/ StorageRecovers

SpecStore == InitStore /\ [][NextStore]_vars

(* ------------------------------------------------- a session restart *)

\* The page is closed and opened again after a session whose score is in
\* storage: the component is constructed anew, storage keeps its record.
RestartPersisted ==
  /\ pc = "ready"
  /\ stored = JSONstringify(score)
  /\ board' = EmptyBoard
  /\ nextPlayer' = "X"
  /\ score' = ZeroScore
  /\ status' = computeStatus(EmptyBoard, "X")
  /\ boot' = stored
  /\ pc' = "mount_load"
  /\ queued' = NoUpdate
  /\ starter' = "X"
  /\ UNCHANGED <<stored, writable>>

NextSession ==
  \/ MountLoad
  \/ MountSave
  \/ Rerender
  \/ StoreClick
  \/ NewRound
  \/ resetAll
  \/ StorageFails
  \/ StorageRecovers
  \/ RestartPersisted

SpecSession == InitStore /\ [][NextSession]_vars

(* ------------------------------------------ startup from any record *)

InitLoad == \E rec \in AllRecords, w \in BOOLEAN : Constructed(rec, w)

NextLoad ==
  \/ MountLoad
  \/ MountSave
  \/ Rerender
  \/ StorageFails
  \/ StorageRecovers

SpecLoad == InitLoad /\ [][NextLoad]_vars

(* ------------------------------------- computeStatus on every board *)

InitStatus ==
  /\ board \in AllBoards
  /\ nextPlayer \in Player
  /\ status = NoStatus
  /\ score = ZeroScore
  /\ stored = NoItem
  /\ boot = NoItem
  /\ writable = TRUE
  /\ pc = "call"
  /\ queued = NoUpdate
  /\ starter = nextPlayer

\* One call of computeStatus(board, nextPlayer).
CallComputeStatus ==
  /\ pc = "call"
  /\ status' = computeStatus(board, nextPlayer)
  /\ pc' = "returned"
  /\ UNCHANGED <<board, nextPlayer, score, stored, writable, queued, boot, starter>>

NextStatus == CallComputeStatus

SpecStatus == InitStatus /\ [][NextStatus]_vars

(* ================================================================ claims *)

\* The eight winning lines as the geometry of the grid gives them: three
\* rows, three columns, two diagonals.
GridLines ==
  {{3 * r, 3 * r + 1, 3 * r + 2} : r \in 0..2}
    \cup {{c, c + 3, c + 6} : c \in 0..2}
    \cup {{0, 4, 8}, {2, 4, 6}}

\* Some line of the grid holds three equal marks.
SomeLineWon(b) ==
  \E l \in GridLines : \E p \in Player : \A i \in l : b[i] = p

BoardFull(b) == \A i \in Indices : b[i] # Null

\* C1: for every board of nine cells and every nextPlayer, computeStatus
\* returns exactly one status: Won iff some of the eight lines holds three
\* equal marks, Draw iff the board is full and no line is won, and otherwise
\* InProgress carrying the nextPlayer it was given.
C1_StatusClassifiesBoard ==
  pc = "returned" =>
    /\ status.kind \in {"WON", "DRAW", "IN_PROGRESS"}
    /\ (status.kind = "WON") <=> SomeLineWon(board)
    /\ (status.kind = "DRAW") <=> (BoardFull(board) /\ ~SomeLineWon(board))
    /\ (~SomeLineWon(board) /\ ~BoardFull(board)) => status = InProgress(nextPlayer)

\* C1 witness: a full board without a won line was classified, with O given
\* as the next player.
C1_Witness ==
  /\ pc = "returned"
  /\ BoardFull(board)
  /\ ~SomeLineWon(board)
  /\ nextPlayer = "O"
  /\ status = Draw

\* The order of the lines as the claim lists it.
ClaimedOrder ==
  << <<0, 1, 2>>, <<3, 4, 5>>, <<6, 7, 8>>,
     <<0, 3, 6>>, <<1, 4, 7>>, <<2, 5, 8>>,
     <<0, 4, 8>>, <<2, 4, 6>> >>

ThreeEqualMarks(b, l) == \E p \in Player : \A j \in 1..3 : b[l[j]] = p

\* C6: when several lines are complete, computeStatus returns the first
\* complete one in the order rows, columns, diagonals, and the winner is the
\* mark on that line.
C6_FirstCompleteLineWins ==
  pc = "returned" =>
    \A k \in 1..8 :
      (/\ ThreeEqualMarks(board, ClaimedOrder[k])
       /\ \A j \in 1..(k - 1) : ~ThreeEqualMarks(board, ClaimedOrder[j]))
      => /\ status.kind = "WON"
         /\ status.line = ClaimedOrder[k]
         /\ status.winner = board[ClaimedOrder[k][1]]

\* The board after X:0 O:4 X:1 O:5 X:3 O:7 X:6 O:8 X:2, whose last move
\* completes the top row and the left column at once.
DoubleLineBoard ==
  [i \in Indices |-> IF i \in {0, 1, 2, 3, 6} THEN "X" ELSE "O"]

\* C6 witness: the double-line board was classified as won on the top row.
C6_Witness ==
  /\ pc = "returned"
  /\ board = DoubleLineBoard
  /\ status = Won("X", <<0, 1, 2>>)

Finished == status.kind \in {"WON", "DRAW"}

\* The number of lines of the grid that hold three equal marks.
LinesWon(b) ==
  Cardinality({l \in GridLines : \E p \in Player : \A i \in l : b[i] = p})

\* C2: a click whose precondition fails (index outside 0..8, square already
\* marked, or status Won or Draw) leaves board, nextPlayer, score and the
\* persisted record unchanged.
C2_RejectedClickIsNoOp ==
  [][\A i \in ClickIndices :
       (/\ (i \notin Indices \/ board[i] # Null \/ Finished)
        /\ handleSquareClick(i))
       => UNCHANGED <<board, nextPlayer, score, stored>>]_vars

\* C2 witness: a won round with an empty square left to click on.
C2_Witness ==
  /\ pc = "ready"
  /\ status.kind = "WON"
  /\ \E i \in Indices : board[i] = Null

\* C3: a step that turns the status to Won adds exactly 1 to the winner's
\* score and leaves the other's alone, also when two lines are completed at
\* once; every other step after the load, except resetAll, leaves the score
\* unchanged, so the sum of the scores grows by the number of rounds won.
C3_OneIncrementPerWonRound ==
  [][(pc = "ready" /\ ~resetAll) =>
       IF status.kind # "WON" /\ status'.kind = "WON"
       THEN /\ score'[status'.winner] = score[status'.winner] + 1
            /\ score'[otherPlayer(status'.winner)] = score[otherPlayer(status'.winner)]
       ELSE score' = score]_vars

\* C3 witness: starting from no record, a round won by X with two lines
\* completed at once has been counted once.
C3_Witness ==
  /\ pc = "ready"
  /\ boot = NoItem
  /\ status.kind = "WON"
  /\ status.winner = "X"
  /\ LinesWon(board) = 2
  /\ score = [X |-> 1, O |-> 0]

\* C4: once the status is Won or Draw a click leaves it exactly as it is, and
\* the only steps from a finished status to InProgress are resetRound (the
\* New round button) and resetAll.
C4_FinishedIsTerminal ==
  [][/\ (Finished /\ Click) => status' = status
     /\ (Finished /\ status'.kind = "IN_PROGRESS") => (NewRound \/ resetAll)]_vars

\* C4 witness: a drawn round.
C4_Witness ==
  /\ pc = "ready"
  /\ status = Draw
  /\ BoardFull(board)

C8_ResetRoundClearsBoard ==
  [][/\ NewRound =>
          /\ board' = EmptyBoard
          /\ nextPlayer' = nextPlayer
          /\ status' = InProgress(nextPlayer)
          /\ UNCHANGED <<score, stored>>
     /\ resetAll =>
          /\ board' = EmptyBoard
          /\ nextPlayer' = "X"
          /\ status' = InProgress("X")]_vars

\* C8 witness: a new round opened by O with a win on the scoreboard.
C8_Witness ==
  /\ pc = "ready"
  /\ board = EmptyBoard
  /\ nextPlayer = "O"
  /\ status = InProgress("O")
  /\ score.X = 1
  /\ stored = JSONstringify(score)

\* C7 as stated: resetAll always leaves score {X:0, O:0}, a persisted record
\* equal to {X:0, O:0}, an empty board and X to move.
C7_ResetAllAlwaysPersistsZero ==
  [][resetAll =>
       /\ score' = ZeroScore
       /\ stored' = JSONstringify(ZeroScore)
       /\ board' = EmptyBoard
       /\ nextPlayer' = "X"]_vars

\* C7 amended: resetAll leaves score {X:0, O:0}, an empty board and X to
\* move; the persisted record equals {X:0, O:0} when the write succeeds and
\* is left as it was when the write fails.
C7_ResetAllZeroesScore ==
  [][resetAll =>
       /\ score' = ZeroScore
       /\ board' = EmptyBoard
       /\ nextPlayer' = "X"
       /\ status' = InProgress("X")
       /\ writable => stored' = JSONstringify(ZeroScore)
       /\ ~writable => stored' = stored]_vars

\* C7 witness: the session loaded a win for X from storage, and the score
\* and the record are zero again on an empty board with X to move.
C7_Witness ==
  /\ pc = "ready"
  /\ boot = JsonText(JObject(Num(MaxStored), Missing))
  /\ score = ZeroScore
  /\ stored = JSONstringify(ZeroScore)
  /\ board = EmptyBoard
  /\ nextPlayer = "X"

\* C9 as stated: in every state both scores are non-negative, whatever the
\* record held at startup.
C9_ScoreNeverNegative ==
  /\ score.X >= 0
  /\ score.O >= 0

\* The score the claim says a record loads as: zero for an absent or
\* unparseable record, and field by field for a parsed one.
ClaimedLoad(rec) ==
  IF rec.kind # "json" THEN ZeroScore
  ELSE [p \in Player |->
          IF rec.value[p].type = "number" THEN rec.value[p].v ELSE 0]

\* C10: loading never fails and defaults field by field: once startup is
\* over the score is zero for an absent or unparseable record, and for a
\* parsed one each field that is missing or no number is 0 while the other
\* keeps its stored number.
C10_LoadDefaultsFieldByField ==
  pc = "ready" => score = ClaimedLoad(boot)

\* C10 witness: a record with X a number and O missing was loaded.
C10_Witness ==
  /\ pc = "ready"
  /\ boot = JsonText(JObject(Num(1), Missing))
  /\ score = [X |-> 1, O |-> 0]

WriteFailing == ~writable \/ stored # JSONstringify(score)

\* C12: a failing storage write is absorbed: while a write fails or has
\* failed, a winning click, New round and resetAll leave board, nextPlayer
\* and score exactly as a successful write would, no step leaves the running
\* state, and a round in progress still has a square whose click is accepted.
C12_FailedWriteIsAbsorbed ==
  [][(pc = "ready" /\ WriteFailing) =>
       /\ pc' = "ready"
       /\ resetAll =>
            /\ board' = EmptyBoard
            /\ nextPlayer' = "X"
            /\ score' = ZeroScore
            /\ ~writable => stored' = stored
       /\ NewRound =>
            /\ board' = EmptyBoard
            /\ nextPlayer' = nextPlayer
            /\ score' = score
       /\ \A i \in Indices :
            (board[i] = Null /\ ~Finished /\ board'[i] # Null /\ handleSquareClick(i)) =>
              /\ board' = [board EXCEPT ![i] = nextPlayer]
              /\ nextPlayer' = IF nextPlayer = "X" THEN "O" ELSE "X"
              /\ score' = IF SomeLineWon(board')
                           THEN [score EXCEPT ![nextPlayer] = @ + 1]
                           ELSE score
              /\ ~writable => stored' = stored
       /\ status'.kind = "IN_PROGRESS" =>
            \E i \in Indices : board'[i] = Null /\ ~Rejected(i)']_vars

\* C12 witness: no write has ever succeeded, and both players have won a
\* round since.
C12_Witness ==
  /\ pc = "ready"
  /\ ~writable
  /\ boot = NoItem
  /\ stored = NoItem
  /\ score = [X |-> 1, O |-> 1]
  /\ status.kind = "WON"

\* A step that mutates the score: a winning click or resetAll.
ScoreMutation == score' # score \/ resetAll

\* C13: after every score mutation whose write succeeds the persisted record
\* equals the whole in-memory score, also when earlier writes failed and the
\* record was behind; once they agree they keep agreeing through every step
\* in which no write fails.
C13_SuccessfulWriteReconciles ==
  [][pc = "ready" =>
       /\ (ScoreMutation /\ writable) => stored' = JSONstringify(score')
       /\ (stored = JSONstringify(score) /\ ~(ScoreMutation /\ ~writable))
            => stored' = JSONstringify(score')]_vars

\* C13 witness: the session started from a record that was not a score, and
\* after a win of each player the record holds the whole score.
C13_Witness ==
  /\ pc = "ready"
  /\ writable
  /\ boot = JsonText(JObject(Num(MaxStored), Missing))
  /\ score = [X |-> 1, O |-> 1]
  /\ stored = JSONstringify(score)
  /\ status.kind = "WON"
  /\ status.winner = "O"

\* C14 as stated: when a session ended with score s persisted, the next
\* session's startup completes with score s in memory, the record still s,
\* an empty board and X to move.
C14_ScoreSurvivesRestart ==
  [][(pc # "ready" /\ pc' = "ready") =>
       \A x, o \in 0..MaxScore :
         boot = JSONstringify([X |-> x, O |-> o]) =>
           /\ score' = [X |-> x, O |-> o]
           /\ stored' = boot
           /\ board' = EmptyBoard
           /\ nextPlayer' = "X"]_vars

\* The squares of the draw scenario in the order they are played, X first.
DrawScenario == <<0, 1, 2, 4, 3, 5, 7, 6, 8>>

\* The board after the first n moves of the scenario, for n in 0..9.
ScenarioBoard ==
  [n \in 0..9 |->
     [i \in Indices |->
        IF \E k \in 1..n : DrawScenario[k] = i /\ k % 2 = 1 THEN "X"
        ELSE IF \E k \in 1..n : DrawScenario[k] = i /\ k % 2 = 0 THEN "O"
        ELSE Null]]

\* C15: an accepted click whose resulting status is InProgress or Draw leaves
\* the score and the persisted record unchanged; along the scenario X:0 O:1
\* X:2 O:4 X:3 O:5 X:7 O:6 X:8 the status is InProgress after each of the
\* first eight moves and Draw after the ninth, and no move changes the score.
C15_NoWinNoScoreChange ==
  [][/\ \A i \in Indices :
          (/\ board[i] = Null /\ ~Finished /\ board'[i] # Null
           /\ status'.kind \in {"IN_PROGRESS", "DRAW"}
           /\ handleSquareClick(i))
          => UNCHANGED <<score, stored>>
     /\ \A n \in 0..8 :
          (/\ pc = "ready"
           /\ nextPlayer = (IF n % 2 = 0 THEN "X" ELSE "O")
           /\ board'[DrawScenario[n + 1]] # board[DrawScenario[n + 1]]
           /\ board = ScenarioBoard[n]
           /\ handleSquareClick(DrawScenario[n + 1]))
          => /\ board' = ScenarioBoard[n + 1]
             /\ status.kind = "IN_PROGRESS"
             /\ status'.kind = (IF n = 8 THEN "DRAW" ELSE "IN_PROGRESS")
             /\ UNCHANGED <<score, stored>>]_vars

\* C15 witness: the scenario has been played to its end from a fresh start.
C15_Witness ==
  /\ pc = "ready"
  /\ boot = NoItem
  /\ board = ScenarioBoard[9]
  /\ status = Draw
  /\ nextPlayer = "O"
  /\ score = ZeroScore
  /\ stored = JSONstringify(ZeroScore)

\* C16: an accepted click on square i changes exactly cell i, from empty to
\* the mark of the player who was nextPlayer, and leaves the other eight
\* cells as they were; a marked cell changes only by becoming empty, and
\* only in a New round or resetAll step.
C16_MoveChangesOneCell ==
  [][/\ \A i \in Indices :
          (board[i] = Null /\ board'[i] # Null) =>
            /\ handleSquareClick(i)
            /\ board'[i] = nextPlayer
            /\ \A j \in Indices \ {i} : board'[j] = board[j]
     /\ \A j \in Indices :
          (board[j] # Null /\ board'[j] # board[j]) =>
            /\ board' = EmptyBoard
            /\ NewRound \/ resetAll]_vars

\* C16 witness: two moves into a round opened by O, the centre is O's and
\* the corner is X's.
C16_Witness ==
  /\ pc = "ready"
  /\ starter = "O"
  /\ board = [EmptyBoard EXCEPT ![4] = "O", ![0] = "X"]
  /\ nextPlayer = "O"

\* C17 as stated: from the start of the app until the first winning move or
\* resetAll, a well-formed record in storage keeps the X and O values it had
\* before the app started, in every intermediate state of startup too.
C17_StartupKeepsRecord ==
  \A x, o \in 0..MaxStored :
    boot = JsonText(JObject(Num(x), Num(o))) =>
      /\ stored.kind = "json"
      /\ stored.value.X = Num(x)
      /\ stored.value.O = Num(o)

\* Player p holds all three cells of some line of the grid.
HasLine(b, p) == \E l \in GridLines : \A i \in l : b[i] = p

\* The number of cells holding the mark of p.
Marks(b, p) == Cardinality({i \in Indices : b[i] = p})

C19_TurnsAlternate ==
  LET second == IF starter = "X" THEN "O" ELSE "X"
      lead == Marks(board, starter) - Marks(board, second)
  IN /\ lead \in {0, 1}
     /\ status.kind = "IN_PROGRESS" =>
          /\ nextPlayer \in Player
          /\ (nextPlayer = starter) <=> (lead = 0)

\* C19 witness: three moves into a round opened by O after a reset of the
\* score, X is to move.
C19_Witness ==
  /\ pc = "ready"
  /\ starter = "O"
  /\ boot = JsonText(JObject(Num(MaxStored), Missing))
  /\ score = ZeroScore
  /\ status.kind = "IN_PROGRESS"
  /\ Marks(board, "O") = 2
  /\ Marks(board, "X") = 1
  /\ nextPlayer = "X"

\* The number of marked cells: the moves accepted since the round started.
TotalMarks(b) == Cardinality({i \in Indices : b[i] # Null})

\* C20: every round ends: each accepted move adds one mark to a board in
\* progress with fewer than nine, after the ninth the status is Won or Draw,
\* no round is Won with fewer than five marks, and while the status is
\* InProgress some empty square's click is accepted.
C20_RoundEndsWithinNineMoves ==
  [][/\ (\E i \in Indices : board[i] = Null /\ board'[i] # Null) =>
          /\ TotalMarks(board') = TotalMarks(board) + 1
          /\ TotalMarks(board) < 9
          /\ status.kind = "IN_PROGRESS"
     /\ TotalMarks(board') = 9 => status'.kind \in {"WON", "DRAW"}
     /\ status'.kind = "WON" => TotalMarks(board') >= 5
     /\ (pc' = "ready" /\ status'.kind = "IN_PROGRESS") =>
          \E i \in Indices : board'[i] = Null /\ ~Rejected(i)']_vars

\* C20 witness: a round opened by O was won with the ninth move.
C20_Witness ==
  /\ pc = "ready"
  /\ starter = "O"
  /\ BoardFull(board)
  /\ status.kind = "WON"
  /\ status.winner = "O"

====
